---- MODULE Spec2Model ----
(***************************************************************************)
(* The event loop iterator `Events` of src/lib.rs: the state machine of    *)
(* Events::next, the Ups / MaxFps setters, the Window it drives and the    *)
(* nanosecond clock it samples.                                            *)
(*                                                                         *)
(* One step of the model is one pass of the `loop` in Events::next (one    *)
(* arm of the `match self.state`), so that the position of a call inside   *)
(* the loop is part of the state; `inCall` tells whether a call of next()  *)
(* is in progress.  The window's queue, its close flag and the clock       *)
(* belong to the environment and may change between any two passes.        *)
(***************************************************************************)
EXTENDS Integers, Sequences, FiniteSets

\* ------------------------------------------------------------ bounds
\* largest advance of the clock between two consecutive samples (ns)
MaxTick == 1
\* largest amount by which a sleep overshoots the requested duration (ns)
MaxOversleep == 1
\* number of input items the window receives in a run
MaxInputs == 2
\* number of Render passes that sample the clock in a run
MaxFrames == 2
\* number of update events in a run
MaxUpdates == 3
\* number of calls of next() made after it has returned None
MaxCallsAfterEnd == 1

\* clock values at construction
StartValues == {7}
\* values handed to Ups(..): 0 and two that give intervals of 2 and 0 ns
\* (the default 120 is what Events::new leaves when Ups is never set)
UpsValues == {0, 500000000, 2000000000}
\* values handed to MaxFps(..): 0 and two that give intervals of 4 and 1 ns
\* (the default 60 is what Events::new leaves when MaxFps is never set)
FpsValues == {0, 250000000, 1000000000}
\* window dimensions returned by size()
Dims == {0, 480, 640}

\* ------------------------------------------------------------ constants
BILLION == 1000000000
DEFAULT_UPS == 120
DEFAULT_MAX_FPS == 60

\* ------------------------------------------------------------ state
VARIABLES
    \* fields of Events
    state, last_update, last_frame, dt_update_in_ns, dt_frame_in_ns, dt,
    \* the Window: close flag, pending input items (oldest first)
    closing, queue,
    \* clock_ticks::precise_time_ns(): the most recent value read or reached
    clock,
    \* control: a builder call panicked; a call of next() is in progress;
    \* what the last finished call returned
    panicked, inCall, ret,
    \* history: the Window calls and sleeps of the current (or last) call
    callLog,
    \* history: counters and records of what has happened so far
    hist

vars == <<state, last_update, last_frame, dt_update_in_ns, dt_frame_in_ns, dt,
          closing, queue, clock, panicked, inCall, ret, callLog, hist>>

events == <<state, last_update, last_frame, dt_update_in_ns, dt_frame_in_ns, dt>>

\* ------------------------------------------------------------ enum State / Idle
Idle_No == "No"
Idle_Yes == "Yes"
State_Render == <<"Render">>
State_SwapBuffers == <<"SwapBuffers">>
State_UpdateLoop(idle) == <<"UpdateLoop", idle>>
State_HandleEvents == <<"HandleEvents">>
State_Update == <<"Update">>

\* ------------------------------------------------------------ pure helpers
Min(a, b) == IF a <= b THEN a ELSE b

\* variant: the division is guarded and yields 0 instead of panicking
DivPanics_Never(d) == FALSE
\* u64 division: a division by zero panics ("attempted to divide by zero")
DivPanics(d) == d = 0
Quot(a, d) == IF d = 0 THEN 0 ELSE a \div d

\* u64 subtraction a - b; -1 stands for every outcome of an underflow
\* (a panic in a checked build, a wrapped huge value otherwise)
Underflow == -1
SubU64(a, b) == IF a >= b THEN a - b ELSE Underflow

\* quack_set! Ups: dt_update_in_ns = BILLION / frames
UpsInterval(ups) == Quot(BILLION, ups)
\* quack_set! Ups: dt = 1.0 / frames as f64, kept as the fraction <<1, frames>>
UpsDt(ups) == <<1, ups>>
\* quack_set! MaxFps: dt_frame_in_ns = BILLION / max_fps.0
FpsInterval(max_fps) == Quot(BILLION, max_fps)

\* Events::next, State::UpdateLoop
NextFrame(lf, dtf) == lf + dtf
NextUpdate(lu, dtu) == lu + dtu
\* variant: only the frame deadline is looked at
NextEvent_FrameOnly(lf, dtf, lu, dtu) == NextFrame(lf, dtf)
NextEvent(lf, dtf, lu, dtu) == Min(NextFrame(lf, dtf), NextUpdate(lu, dtu))
\* variant: the frame is scheduled from the previous deadline
FrameStart_FromDeadline(start_render, lf, dtf) == lf + dtf
\* Events::next, State::Render: the timestamp stored in last_frame
FrameStart(start_render, lf, dtf) == start_render
\* Events::next, State::Render: nanoseconds behind RenderArgs.ext_dt
ExtDt(start_render, lu) == SubU64(start_render, lu)
\* variant: an update leaves last_update where it was
AdvanceUpdate_Stuck(lu, dtu) == lu
\* variant: a variable time step, last_update = now
AdvanceUpdate_ToNow(lu, dtu) == clock
\* Events::next, State::Update
AdvanceUpdate(lu, dtu) == lu + dtu

\* ------------------------------------------------------------ events and log entries
NoEvent == [kind |-> "nothing", args |-> <<>>]
EndOfSequence == [kind |-> "end", args |-> <<>>]
RenderEvent(ext, w, h) == [kind |-> "render", args |-> <<ext, w, h>>]
UpdateEvent(d) == [kind |-> "update", args |-> d]
InputEvent(x) == [kind |-> "input", args |-> <<x>>]
IdleEvent(ns) == [kind |-> "idle", args |-> <<ns>>]

Called(op, at, res) == [op |-> op, at |-> at, res |-> res]
None == <<>>
Some(x) == <<x>>

\* Window::poll_event on a queue q: the result and the queue left
PollResult(q) == IF q = <<>> THEN None ELSE Some(Head(q))
PollRest(q) == IF q = <<>> THEN q ELSE Tail(q)

\* the clock values a new sample may return: the clock never runs backwards
Samples == clock .. (clock + MaxTick)

\* ------------------------------------------------------------ initial state
\* Events::new(window)
Init ==
    /\ clock \in StartValues
    /\ state = State_Render
    /\ last_update = clock
    /\ last_frame = clock
    /\ dt_update_in_ns = BILLION \div DEFAULT_UPS
    /\ dt_frame_in_ns = BILLION \div DEFAULT_MAX_FPS
    /\ dt = <<1, DEFAULT_UPS>>
    /\ closing = FALSE
    /\ queue = <<>>
    /\ panicked = FALSE
    /\ inCall = FALSE
    /\ ret = NoEvent
    /\ callLog = <<>>
    /\ hist = [start |-> clock, ups |-> DEFAULT_UPS, fps |-> DEFAULT_MAX_FPS,
               started |-> FALSE, zeroCfg |-> FALSE,
               arrived |-> 0, emitted |-> <<>>, arrivedAtPoll |-> 0,
               updates |-> 0, frames |-> 0, unswapped |-> 0,
               lastOcc |-> "nothing", skipped |-> FALSE,
               idleInSlack |-> 0, inputInSlack |-> 0,
               ends |-> 0, postEndCalls |-> 0]


\* ------------------------------------------------------------ history helpers
\* Window calls made after next() first returned None
PostEnd(n) == IF hist.ends >= 1 THEN hist.postEndCalls + n ELSE hist.postEndCalls

\* values the code assigns, named so that each can be read against its line
\* variant: the flag is not raised when idle is reported
IdleAfterIdleEvent_No == Idle_No
\* `*idle = Idle::Yes` before the idle event is returned
IdleAfterIdleEvent == Idle_Yes
\* variant: the flag is raised when an input event is returned
IdleAfterInput_Yes == Idle_Yes
\* `*idle = Idle::No` before an input event is returned from UpdateLoop
IdleAfterInput == Idle_No
\* variant: the flag stays raised after the sleep
IdleAfterSleep_Yes == Idle_Yes
\* `State::UpdateLoop(Idle::No)` after the sleep
IdleAfterSleep == Idle_No
\* variant: the idle flag is not consulted
MayReportIdle_Always(idle) == TRUE
\* `else if *idle == Idle::No`
MayReportIdle(idle) == idle = Idle_No
\* variant: the loop never waits for a deadline
SlackRemains_Never(next_event, current_time) == FALSE
\* variant: a deadline that falls on the sample still counts as slack
SlackRemains_OrEqual(next_event, current_time) == next_event >= current_time
\* `if next_event > current_time`
SlackRemains(next_event, current_time) == next_event > current_time
\* variant: the update follows the deadline without draining the input
DeadlineState_SkipDrain(next_event, next_frame) ==
    IF next_event = next_frame THEN State_Render ELSE State_Update
\* variant: close-intent is acted on as soon as a deadline arrives
DeadlineState_CloseFirst(next_event, next_frame) ==
    IF closing \/ next_event = next_frame THEN State_Render ELSE State_HandleEvents
\* variant: a tie between the two deadlines goes to the update
DeadlineState_TieToUpdate(next_event, next_frame) ==
    IF next_event = next_frame /\ next_frame # NextUpdate(last_update, dt_update_in_ns)
    THEN State_Render ELSE State_HandleEvents
\* `else if next_event == next_frame { Render } else { HandleEvents }`
DeadlineState(next_event, next_frame) ==
    IF next_event = next_frame THEN State_Render ELSE State_HandleEvents
\* variant: the close flag is ignored
CloseEnds_Never(should_close) == FALSE
\* `if self.window.should_close() { return None; }`
CloseEnds(should_close) == should_close
\* variant: one nonzero dimension is enough
Renderable_Either(w, h) == w # 0 \/ h # 0
\* `if w != 0 && h != 0`
Renderable(w, h) == w # 0 /\ h # 0
\* variant: the frame is not presented
AfterRender_NoSwap == State_UpdateLoop(Idle_No)
\* `self.state = State::SwapBuffers;` before the render event is returned
AfterRender == State_SwapBuffers
\* variant: the iterator is fused by a terminal state
StateAfterEnd_Terminal(st) == <<"Ended">>
\* `return None;` leaves the `self.state = match ..` assignment undone
StateAfterEnd(st) == st
\* HandleEvents: `None => State::Update`
AfterDrain == State_Update

\* ------------------------------------------------------------ configuration
\* quack_set! Ups, applied by .set(Ups(u)) before the iteration starts
SetUps(u) ==
    /\ ~panicked
    /\ ~hist.started
    /\ IF DivPanics(u)
       THEN /\ panicked' = TRUE
            /\ hist' = [hist EXCEPT !.zeroCfg = TRUE]
            /\ UNCHANGED <<dt_update_in_ns, dt>>
       ELSE /\ dt_update_in_ns' = UpsInterval(u)
            /\ dt' = UpsDt(u)
            /\ hist' = [hist EXCEPT !.ups = u, !.zeroCfg = @ \/ (u = 0)]
            /\ UNCHANGED panicked
    /\ UNCHANGED <<state, last_update, last_frame, dt_frame_in_ns,
                   closing, queue, clock, inCall, ret, callLog>>

\* quack_set! MaxFps, applied by .set(MaxFps(f)) before the iteration starts
SetMaxFps(f) ==
    /\ ~panicked
    /\ ~hist.started
    /\ IF DivPanics(f)
       THEN /\ panicked' = TRUE
            /\ hist' = [hist EXCEPT !.zeroCfg = TRUE]
            /\ UNCHANGED dt_frame_in_ns
       ELSE /\ dt_frame_in_ns' = FpsInterval(f)
            /\ hist' = [hist EXCEPT !.fps = f, !.zeroCfg = @ \/ (f = 0)]
            /\ UNCHANGED panicked
    /\ UNCHANGED <<state, last_update, last_frame, dt_update_in_ns, dt,
                   closing, queue, clock, inCall, ret, callLog>>

\* ------------------------------------------------------------ Events::next
\* the host calls next(): entry of the function, before the first pass
NextCall ==
    /\ ~panicked
    /\ ~inCall
    /\ hist.ends <= MaxCallsAfterEnd
    /\ inCall' = TRUE
    /\ callLog' = <<>>
    /\ hist' = [hist EXCEPT !.started = TRUE]
    /\ UNCHANGED <<events, closing, queue, clock, panicked, ret>>

\* State::Render
RenderStep ==
    /\ inCall
    /\ state = State_Render
    /\ IF CloseEnds(closing)
       THEN /\ inCall' = FALSE
            /\ ret' = EndOfSequence
            /\ callLog' = Append(callLog, Called("should_close", "Render", <<1>>))
            /\ hist' = [hist EXCEPT !.ends = @ + 1, !.postEndCalls = PostEnd(1)]
            /\ state' = StateAfterEnd(state)
            /\ UNCHANGED <<last_update, last_frame, dt_update_in_ns,
                           dt_frame_in_ns, dt, clock>>
       ELSE /\ hist.frames < MaxFrames
            /\ \E start_render \in Samples, w \in Dims, h \in Dims :
                 /\ clock' = start_render
                 /\ last_frame' = FrameStart(start_render, last_frame, dt_frame_in_ns)
                 /\ callLog' = callLog \o
                        << Called("should_close", "Render", <<IF closing THEN 1 ELSE 0>>),
                           Called("size", "Render", <<w, h>>) >>
                 /\ IF Renderable(w, h)
                    THEN /\ state' = AfterRender
                         /\ inCall' = FALSE
                         /\ ret' = RenderEvent(ExtDt(start_render, last_update), w, h)
                         /\ hist' = [hist EXCEPT !.frames = @ + 1, !.unswapped = @ + 1,
                                                 !.lastOcc = "render", !.skipped = FALSE,
                                                 !.postEndCalls = PostEnd(2)]
                    ELSE /\ state' = State_UpdateLoop(Idle_No)
                         /\ hist' = [hist EXCEPT !.frames = @ + 1,
                                                 !.skipped = TRUE,
                                                 !.postEndCalls = PostEnd(2)]
                         /\ UNCHANGED <<inCall, ret>>
            /\ UNCHANGED <<last_update, dt_update_in_ns, dt_frame_in_ns, dt>>
    /\ UNCHANGED <<closing, queue, panicked>>

\* State::SwapBuffers
SwapBuffersStep ==
    /\ inCall
    /\ state = State_SwapBuffers
    /\ callLog' = Append(callLog, Called("swap_buffers", "SwapBuffers", <<>>))
    /\ state' = State_UpdateLoop(Idle_No)
    /\ hist' = [hist EXCEPT !.unswapped = @ - 1, !.postEndCalls = PostEnd(1)]
    /\ UNCHANGED <<last_update, last_frame, dt_update_in_ns, dt_frame_in_ns, dt,
                   closing, queue, clock, panicked, inCall, ret>>

\* State::UpdateLoop(idle)
UpdateLoopStep ==
    /\ inCall
    /\ state[1] = "UpdateLoop"
    /\ \E current_time \in Samples :
         LET idle == state[2]
             next_frame == NextFrame(last_frame, dt_frame_in_ns)
             next_update == NextUpdate(last_update, dt_update_in_ns)
             next_event == NextEvent(last_frame, dt_frame_in_ns,
                                     last_update, dt_update_in_ns)
             polled == PollResult(queue)
             poll == Called("poll_event", "UpdateLoop", polled)
         IN
         IF SlackRemains(next_event, current_time)
         THEN /\ queue' = PollRest(queue)
              /\ IF polled # None
                 THEN /\ state' = State_UpdateLoop(IdleAfterInput)
                      /\ clock' = current_time
                      /\ inCall' = FALSE
                      /\ ret' = InputEvent(polled[1])
                      /\ callLog' = Append(callLog, poll)
                      /\ hist' = [hist EXCEPT !.emitted = Append(@, polled[1]),
                                              !.inputInSlack = @ + 1,
                                              !.lastOcc = "input", !.skipped = FALSE,
                                              !.postEndCalls = PostEnd(1)]
                 ELSE IF MayReportIdle(idle)
                 THEN /\ state' = State_UpdateLoop(IdleAfterIdleEvent)
                      /\ clock' = current_time
                      /\ inCall' = FALSE
                      /\ ret' = IdleEvent(SubU64(next_event, current_time))
                      /\ callLog' = Append(callLog, poll)
                      /\ hist' = [hist EXCEPT !.idleInSlack = @ + 1,
                                              !.lastOcc = "idle", !.skipped = FALSE,
                                              !.postEndCalls = PostEnd(1)]
                 ELSE \* sleep(next_event - current_time) returns no earlier than asked
                      /\ \E over \in 0 .. MaxOversleep : clock' = next_event + over
                      /\ state' = State_UpdateLoop(IdleAfterSleep)
                      /\ callLog' = callLog \o
                             << poll, Called("sleep", "UpdateLoop",
                                             <<SubU64(next_event, current_time)>>) >>
                      /\ hist' = [hist EXCEPT !.lastOcc = "sleep",
                                              !.skipped = FALSE,
                                              !.postEndCalls = PostEnd(1)]
                      /\ UNCHANGED <<inCall, ret>>
         ELSE /\ state' = DeadlineState(next_event, next_frame)
              /\ clock' = current_time
              /\ hist' = [hist EXCEPT !.idleInSlack = 0, !.inputInSlack = 0]
              /\ UNCHANGED <<queue, inCall, ret, callLog>>
    /\ UNCHANGED <<last_update, last_frame, dt_update_in_ns, dt_frame_in_ns, dt,
                   closing, panicked>>

\* State::HandleEvents
HandleEventsStep ==
    /\ inCall
    /\ state = State_HandleEvents
    /\ LET polled == PollResult(queue)
           poll == Called("poll_event", "HandleEvents", polled)
       IN /\ queue' = PollRest(queue)
          /\ callLog' = Append(callLog, poll)
          /\ IF polled = None
             THEN /\ state' = AfterDrain
                  /\ hist' = [hist EXCEPT !.arrivedAtPoll = hist.arrived,
                                          !.postEndCalls = PostEnd(1)]
                  /\ UNCHANGED <<inCall, ret>>
             ELSE /\ inCall' = FALSE
                  /\ ret' = InputEvent(polled[1])
                  /\ hist' = [hist EXCEPT !.emitted = Append(@, polled[1]),
                                          !.lastOcc = "input", !.skipped = FALSE,
                                          !.postEndCalls = PostEnd(1)]
                  /\ UNCHANGED state
    /\ UNCHANGED <<last_update, last_frame, dt_update_in_ns, dt_frame_in_ns, dt,
                   closing, clock, panicked>>

\* State::Update
UpdateStep ==
    /\ inCall
    /\ state = State_Update
    /\ hist.updates < MaxUpdates
    /\ state' = State_UpdateLoop(Idle_No)
    /\ last_update' = AdvanceUpdate(last_update, dt_update_in_ns)
    /\ inCall' = FALSE
    /\ ret' = UpdateEvent(dt)
    /\ hist' = [hist EXCEPT !.updates = @ + 1, !.lastOcc = "update",
                            !.skipped = FALSE]
    /\ UNCHANGED <<last_frame, dt_update_in_ns, dt_frame_in_ns, dt,
                   closing, queue, clock, panicked, callLog>>

\* ------------------------------------------------------------ the Window's side
\* an input item reaches the window's queue; items are numbered in arrival order
Arrive ==
    /\ ~panicked
    /\ hist.arrived < MaxInputs
    /\ queue' = Append(queue, hist.arrived + 1)
    /\ hist' = [hist EXCEPT !.arrived = @ + 1]
    /\ UNCHANGED <<events, closing, clock, panicked, inCall, ret, callLog>>

\* the user asks the window to close; should_close() answers true from then on
RequestClose ==
    /\ ~panicked
    /\ ~closing
    /\ closing' = TRUE
    /\ UNCHANGED <<events, queue, clock, panicked, inCall, ret, callLog, hist>>

Next ==
    \/ \E u \in UpsValues : SetUps(u)
    \/ \E f \in FpsValues : SetMaxFps(f)
    \/ NextCall
    \/ RenderStep
    \/ SwapBuffersStep
    \/ UpdateLoopStep
    \/ HandleEventsStep
    \/ UpdateStep
    \/ Arrive
    \/ RequestClose

Spec == Init /\ [][Next]_vars

\* one pass of the loop of Events::next, or the caller's next call of it
Step ==
    \/ NextCall
    \/ RenderStep
    \/ SwapBuffersStep
    \/ UpdateLoopStep
    \/ HandleEventsStep
    \/ UpdateStep

\* rates a caller can set that leave dt_update_in_ns > 0 and do not panic
LiveUps == {u \in UpsValues : ~DivPanics(u) /\ UpsInterval(u) > 0}
LiveFps == {f \in FpsValues : ~DivPanics(f)}

\* Events::new(window).set(Ups(u)).set(MaxFps(f)), before the first next()
LiveInit ==
    \E u \in LiveUps, f \in LiveFps :
        /\ clock \in StartValues
        /\ state = State_Render
        /\ last_update = clock
        /\ last_frame = clock
        /\ dt_update_in_ns = UpsInterval(u)
        /\ dt_frame_in_ns = FpsInterval(f)
        /\ dt = UpsDt(u)
        /\ closing = FALSE
        /\ queue = <<>>
        /\ panicked = FALSE
        /\ inCall = FALSE
        /\ ret = NoEvent
        /\ callLog = <<>>
        /\ hist = [start |-> clock, ups |-> u, fps |-> f,
                   started |-> FALSE, zeroCfg |-> FALSE,
                   arrived |-> 0, emitted |-> <<>>, arrivedAtPoll |-> 0,
                   updates |-> 0, frames |-> 0, unswapped |-> 0,
                   lastOcc |-> "nothing", skipped |-> FALSE,
                   idleInSlack |-> 0, inputInSlack |-> 0,
                   ends |-> 0, postEndCalls |-> 0]

LiveNext ==
    \/ Step
    \/ Arrive
    \/ RequestClose

\* a configured iterator whose caller goes on calling next(): the code of a
\* call runs on and a sleep returns
LiveSpec == LiveInit /\ [][LiveNext]_vars /\ WF_vars(Step)


\* ------------------------------------------------------------ vocabulary of the properties
\* a step that finishes a call of next() with an event of kind k
Returns(k) == inCall /\ ~inCall' /\ ret'.kind = k
\* a pass of the loop in the given state that reached the Window
PassIn(st) == inCall /\ state = st /\ Len(callLog') > Len(callLog)
\* the entries a step added to the log
Added == SubSeq(callLog', Len(callLog) + 1, Len(callLog'))
\* a step in which the thread slept
Slept == Len(callLog') > Len(callLog) /\ callLog'[Len(callLog')].op = "sleep"
LastCalled == callLog[Len(callLog)]
Iota(n) == [i \in 1 .. n |-> i]
ShouldCloseTrue == Called("should_close", "Render", <<1>>)
ShouldCloseFalse == Called("should_close", "Render", <<0>>)
DrainedNone == Called("poll_event", "HandleEvents", None)
\* a pass of the loop in State::UpdateLoop
UpdateLoopPass ==
    /\ inCall
    /\ state[1] = "UpdateLoop"
    /\ (state' # state \/ Len(callLog') > Len(callLog))
\* the two deadlines of the current state
FrameDeadline == NextFrame(last_frame, dt_frame_in_ns)
UpdateDeadline == NextUpdate(last_update, dt_update_in_ns)
\* the nanoseconds asked of the sleep a step made
SleptFor == callLog'[Len(callLog')].res[1]


\* ------------------------------------------------------------ C1
\* C1: input is drained before every update.  The items come out in the
\* order the window received them, none lost and none twice (what has been
\* emitted followed by what is still queued is 1, 2, .., arrived); an item
\* poll_event returns is the last Window call of its call of next(), which
\* returns it as an input event; an update event is returned only by a call
\* whose last Window call was poll_event in HandleEvents answering None, and
\* by then every item that had arrived before that poll has been emitted.
C1_DrainBeforeUpdate ==
    /\ hist.emitted \o queue = Iota(hist.arrived)
    /\ \A i \in 1 .. Len(callLog) :
         (callLog[i].op = "poll_event" /\ callLog[i].res # None)
            => /\ i = Len(callLog)
               /\ ~inCall
               /\ ret = InputEvent(callLog[i].res[1])
               /\ hist.emitted # <<>>
               /\ hist.emitted[Len(hist.emitted)] = callLog[i].res[1]
    /\ (~inCall /\ ret.kind = "input")
            => /\ callLog # <<>>
               /\ LastCalled.op = "poll_event"
               /\ LastCalled.res = ret.args
    /\ (~inCall /\ ret.kind = "update")
            => /\ callLog # <<>>
               /\ LastCalled = DrainedNone
               /\ Len(hist.emitted) = hist.arrivedAtPoll
               /\ hist.emitted = Iota(hist.arrivedAtPoll)

\* two items were queued and both came out before the update just returned
C1_Witness ==
    /\ ~inCall
    /\ ret.kind = "update"
    /\ hist.emitted = <<1, 2>>
    /\ hist.arrivedAtPoll = 2

\* ------------------------------------------------------------ C2
\* C2: fixed update rate.  With Ups(U) configured, last_update is the
\* construction timestamp plus (number of update events) * (BILLION / U); the
\* clock has reached that value, so the updates never run ahead of the
\* elapsed time; every update event carries dt = 1 / U.
C2_FixedUpdateRate ==
    ~panicked =>
        /\ dt_update_in_ns = BILLION \div hist.ups
        /\ dt = <<1, hist.ups>>
        /\ last_update = hist.start + hist.updates * dt_update_in_ns
        /\ hist.start + hist.updates * dt_update_in_ns <= clock
        /\ ret.kind = "update" => ret.args = <<1, hist.ups>>

\* the second update of a run configured with Ups(500000000) was returned
C2_Witness ==
    /\ ~inCall
    /\ ret.kind = "update"
    /\ hist.updates >= 2
    /\ hist.ups = 500000000
    /\ last_update = hist.start + 2 * hist.updates


\* ------------------------------------------------------------ C3
\* C3: frame cap.  The machine enters Render from another state only when
\* the clock has reached last_frame + dt_frame_in_ns; a Render pass stores
\* the frame start it samples in last_frame (the next deadline is counted
\* from the frame start, not from the previous deadline); so every Render
\* pass but the first starts at least dt_frame_in_ns after the one before.
C3_FrameCap ==
    [][ /\ (state # State_Render /\ state' = State_Render)
            => clock' >= last_frame + dt_frame_in_ns
        /\ (hist'.frames = hist.frames + 1)
            => /\ last_frame' = clock'
               /\ hist.frames >= 1 => last_frame' >= last_frame + dt_frame_in_ns
      ]_vars

\* a second render event was returned, MaxFps(250000000) configured
C3_Witness ==
    /\ ~inCall
    /\ ret.kind = "render"
    /\ hist.frames >= 2
    /\ dt_frame_in_ns = 4

\* ------------------------------------------------------------ C4
\* C4 as stated, its consequence: an idle event is never returned while the
\* previous idle event is the most recent of the events and sleeps.
C4_Original == [][ Returns("idle") => hist.lastOcc # "idle" ]_vars

\* C4, amended.  An idle event is returned only from UpdateLoop(Idle::No),
\* with the deadline still ahead of the sampled time and nothing polled; in
\* UpdateLoop(Idle::Yes) a poll that finds nothing is followed by the sleep,
\* which returns no event; the thread sleeps only in UpdateLoop(Idle::Yes).
\* Between two idle events there is an input, render or update event, a
\* sleep, or a Render pass that was skipped because the window had a zero
\* dimension (the pass leaves UpdateLoop(Idle::No) without any event).
C4_IdleThrottle ==
    [][ /\ Returns("idle")
            => /\ state = State_UpdateLoop(Idle_No)
               /\ hist.lastOcc # "idle" \/ hist.skipped
               /\ Added = << Called("poll_event", "UpdateLoop", None) >>
               /\ NextEvent(last_frame, dt_frame_in_ns,
                            last_update, dt_update_in_ns) > clock'
        /\ (/\ inCall
            /\ state = State_UpdateLoop(Idle_Yes)
            /\ Len(callLog') > Len(callLog)
            /\ Added[1] = Called("poll_event", "UpdateLoop", None))
            => Slept /\ inCall' /\ ret' = ret /\ hist'.lastOcc = "sleep"
        /\ Slept
            => /\ state = State_UpdateLoop(Idle_Yes)
               /\ hist.lastOcc = "idle"
               /\ inCall'
      ]_vars

\* the last event was an idle event, a Render pass has been skipped since,
\* and the pass about to run finds slack and no input: a second idle event
C4_Witness ==
    /\ inCall
    /\ state = State_UpdateLoop(Idle_No)
    /\ hist.lastOcc = "idle"
    /\ hist.skipped
    /\ queue = <<>>
    /\ NextEvent(last_frame, dt_frame_in_ns, last_update, dt_update_in_ns)
          > clock + MaxTick

C6_Original == hist.postEndCalls = 0

\* C6, amended.  A Render pass that finds should_close() true ends the call:
\* None is returned, no event is emitted, should_close is the last Window
\* call of that call (no size, swap_buffers or poll_event follows it) and no
\* field of Events changes.  From then on, close-intent staying raised, the
\* state stays Render, the fields keep their values, no event is returned,
\* and a later call of next() makes exactly one Window call, should_close,
\* and returns None again.
C6_CloseEnds ==
    [][ /\ (PassIn(State_Render) /\ closing)
            => /\ ~inCall'
               /\ ret' = EndOfSequence
               /\ Added = << ShouldCloseTrue >>
               /\ UNCHANGED <<events, queue, clock>>
               /\ hist'.emitted = hist.emitted
               /\ hist'.lastOcc = hist.lastOcc
               /\ hist'.ends = hist.ends + 1
        /\ hist.ends >= 1
            => /\ closing /\ closing'
               /\ state = State_Render
               /\ UNCHANGED <<events, clock>>
               /\ ret = EndOfSequence /\ ret' = EndOfSequence
               /\ hist'.emitted = hist.emitted
               /\ hist'.lastOcc = hist.lastOcc
               /\ callLog' \in {callLog, <<>>, << ShouldCloseTrue >>}
               /\ hist'.postEndCalls \in {hist.postEndCalls, hist.postEndCalls + 1}
               /\ hist'.postEndCalls <= hist'.ends - 1
      ]_vars

\* next() was called again after the end and returned None a second time,
\* having asked should_close once
C6_Witness ==
    /\ ~inCall
    /\ ret = EndOfSequence
    /\ hist.ends = 2
    /\ hist.postEndCalls = 1
    /\ callLog = << ShouldCloseTrue >>
    /\ hist.emitted # <<>>

\* ------------------------------------------------------------ C7
\* C7: extrapolation is never negative.  last_update never exceeds the
\* clock; while the render event is the last thing returned (state
\* SwapBuffers) its ext_dt is last_frame - last_update nanoseconds, computed
\* without underflow.
C7_ExtrapolationNonNegative ==
    /\ last_update <= clock
    /\ state = State_SwapBuffers
        => /\ ret.kind = "render"
           /\ last_update <= last_frame
           /\ ret.args[1] = last_frame - last_update
           /\ ret.args[1] # Underflow
           /\ ret.args[1] >= 0

\* a render event after two updates, with a positive extrapolation
C7_Witness ==
    /\ state = State_SwapBuffers
    /\ hist.updates >= 2
    /\ ret.args[1] > 0

\* ------------------------------------------------------------ C8
\* C8: Ups(0) and MaxFps(0) fail when they are applied (the division
\* BILLION / 0 panics before any field is written), no Events value comes out
\* of the builder, so next() is never called on it; nothing else panics, in
\* particular nothing inside the loop.
C8_ZeroRejected ==
    /\ hist.zeroCfg => panicked
    /\ panicked => hist.zeroCfg /\ ~hist.started /\ ~inCall /\ ret = NoEvent
    /\ hist.started => ~hist.zeroCfg

\* a builder call with 0 has panicked
C8_Witness == panicked /\ hist.zeroCfg /\ dt_frame_in_ns = 4

\* ------------------------------------------------------------ C9
\* C9 as stated: the two intervals of an Events value are positive.
C9_PositiveIntervals == ~panicked => dt_update_in_ns > 0 /\ dt_frame_in_ns > 0

\* ------------------------------------------------------------ C10
\* C10: zero-size skip.  A Render pass without close-intent asks
\* should_close and size and stores the sampled frame start in last_frame.
\* With a zero width or height it returns nothing, emits no render event,
\* owes no swap_buffers and goes on, in the same call, in
\* UpdateLoop(Idle::No); with both nonzero it returns one render event
\* carrying that width and height and leaves the state SwapBuffers.
C10_ZeroSizeSkip ==
    [][ (PassIn(State_Render) /\ ~closing)
            => /\ Len(Added) = 2
               /\ Added[1] = ShouldCloseFalse
               /\ Added[2].op = "size"
               /\ last_frame' = clock'
               /\ hist'.frames = hist.frames + 1
               /\ LET w == Added[2].res[1]
                      h == Added[2].res[2]
                  IN IF w = 0 \/ h = 0
                     THEN /\ inCall'
                          /\ ret' = ret
                          /\ hist'.lastOcc = hist.lastOcc
                          /\ hist'.unswapped = hist.unswapped
                          /\ state' = State_UpdateLoop(Idle_No)
                     ELSE /\ ~inCall'
                          /\ ret'.kind = "render"
                          /\ ret'.args[2] = w
                          /\ ret'.args[3] = h
                          /\ hist'.unswapped = hist.unswapped + 1
                          /\ state' = State_SwapBuffers
      ]_vars

\* a Render pass has just been skipped for a window of width 640, height 0
C10_Witness ==
    /\ inCall
    /\ state = State_UpdateLoop(Idle_No)
    /\ callLog # <<>>
    /\ LastCalled = Called("size", "Render", <<640, 0>>)
    /\ last_frame = clock
    /\ hist.frames = 2


\* ------------------------------------------------------------ C11
\* C11: catch-up without idling.  An idle event is returned, and the thread
\* sleeps, only with both the frame deadline and the update deadline
\* strictly after the sampled time; while last_update + dt_update_in_ns has
\* been reached by the clock no pass returns idle or sleeps; and
\* last_update moves only by one dt_update_in_ns, with an update event, so a
\* lag of k intervals is worked off by k update events, none of them
\* separated by an idle event or a sleep.
C11_CatchUpWithoutIdling ==
    [][ /\ Returns("idle")
            => FrameDeadline > clock' /\ UpdateDeadline > clock'
        /\ Slept
            => /\ SleptFor > 0
               /\ FrameDeadline - SleptFor >= clock
               /\ UpdateDeadline - SleptFor >= clock
        /\ UpdateDeadline <= clock
            => ~Returns("idle") /\ ~Slept
        /\ (UpdateLoopPass /\ ~Slept /\ UpdateDeadline <= clock')
            => /\ inCall' /\ ret' = ret /\ callLog' = callLog
               /\ state'[1] # "UpdateLoop"
        /\ last_update' # last_update
            => /\ Returns("update")
               /\ last_update' = last_update + dt_update_in_ns
      ]_vars

\* an update event was returned and the next update is already due again
C11_Witness ==
    /\ ~inCall
    /\ ret.kind = "update"
    /\ hist.updates >= 1
    /\ dt_update_in_ns > 0
    /\ UpdateDeadline <= clock

\* ------------------------------------------------------------ C12
\* C12: present protocol.  swap_buffers is called only in State::SwapBuffers,
\* as the first Window call of the call of next() that follows the one which
\* returned the render event, before any event is returned; the number of
\* render events not yet followed by their swap_buffers is 0 or 1, and it is
\* 1 exactly while the state is SwapBuffers, which is entered only by
\* returning a render event.
C12_PresentProtocol ==
    [][ /\ hist'.unswapped \in {0, 1}
        /\ hist'.unswapped = 1 <=> state' = State_SwapBuffers
        /\ state' = State_SwapBuffers
            => /\ ret'.kind = "render"
               /\ ~inCall' \/ callLog' = <<>>
        /\ (state # State_SwapBuffers /\ state' = State_SwapBuffers)
            => Returns("render")
        /\ Returns("render")
            => state' = State_SwapBuffers /\ hist'.unswapped = hist.unswapped + 1
        /\ (inCall /\ state = State_SwapBuffers /\ state' # state)
            => /\ callLog = <<>>
               /\ Added = << Called("swap_buffers", "SwapBuffers", <<>>) >>
               /\ hist'.unswapped = hist.unswapped - 1
               /\ inCall' /\ ret' = ret
        /\ \A i \in 1 .. Len(callLog') :
             callLog'[i].op = "swap_buffers" => i = 1
        /\ (Len(callLog') > Len(callLog) /\ callLog'[Len(callLog')].op = "swap_buffers")
            => state = State_SwapBuffers
      ]_vars

\* the second frame has been presented
C12_Witness ==
    /\ inCall
    /\ hist.frames = 2
    /\ hist.unswapped = 0
    /\ callLog = << Called("swap_buffers", "SwapBuffers", <<>>) >>

\* ------------------------------------------------------------ C13
\* C13: deadline choice.  An UpdateLoop pass whose sample has reached the
\* earlier deadline leaves UpdateLoop: to Render exactly when the frame
\* deadline is not after the update deadline (a tie goes to Render), to
\* HandleEvents exactly when the update deadline is the earlier one; that
\* pass returns nothing and polls nothing.  A pass leaves UpdateLoop only so.
C13_DeadlineChoice ==
    [][ /\ (UpdateLoopPass /\ ~Slept /\ Min(FrameDeadline, UpdateDeadline) <= clock')
            => state'[1] # "UpdateLoop"
        /\ (inCall /\ state[1] = "UpdateLoop" /\ state'[1] # "UpdateLoop")
            => /\ Min(FrameDeadline, UpdateDeadline) <= clock'
               /\ state' = State_Render <=> FrameDeadline <= UpdateDeadline
               /\ state' = State_HandleEvents <=> UpdateDeadline < FrameDeadline
               /\ state' \in {State_Render, State_HandleEvents}
               /\ inCall' /\ ret' = ret
               /\ callLog' = callLog /\ queue' = queue
               /\ hist'.emitted = hist.emitted /\ hist'.lastOcc = hist.lastOcc
      ]_vars

\* both deadlines fell on the same nanosecond and the machine is in Render
C13_Witness ==
    /\ inCall
    /\ state = State_Render
    /\ hist.frames >= 1
    /\ dt_update_in_ns > 0
    /\ FrameDeadline = UpdateDeadline
    /\ FrameDeadline <= clock


\* ------------------------------------------------------------ C14
\* C14: close-intent is polled only in Render.  should_close is called only
\* by a Render pass, once, as its first Window call; None is returned only
\* from Render; with close-intent raised UpdateLoop still chooses by the
\* deadlines alone, and a HandleEvents pass that finds an item returns it and
\* stays in HandleEvents, so as long as every poll there finds an item the
\* calls return input events and the sequence does not end.
C14_ClosePolledOnlyInRender ==
    [][ /\ (/\ Len(callLog') > Len(callLog)
            /\ \E i \in 1 .. Len(Added) : Added[i].op = "should_close")
            => /\ inCall
               /\ state = State_Render
               /\ Added[1].op = "should_close"
               /\ \A i \in 2 .. Len(Added) : Added[i].op # "should_close"
        /\ PassIn(State_Render) => Added[1].op = "should_close"
        /\ Returns("end") => state = State_Render /\ closing
        /\ (closing /\ inCall /\ state[1] = "UpdateLoop" /\ state' = State_Render)
            => FrameDeadline <= UpdateDeadline /\ FrameDeadline <= clock'
        /\ (PassIn(State_HandleEvents) /\ queue # <<>>)
            => /\ Returns("input")
               /\ ret' = InputEvent(Head(queue))
               /\ state' = State_HandleEvents
               /\ hist'.ends = hist.ends
      ]_vars

\* close-intent is raised, the machine drains input with two items pending
C14_Witness ==
    /\ closing
    /\ inCall
    /\ state = State_HandleEvents
    /\ Len(queue) = 2
    /\ hist.ends = 0

\* ------------------------------------------------------------ C15
\* C15: end-of-sequence is not a state transition.  A call that returns None
\* was in Render and leaves state = Render and last_update, last_frame,
\* dt_update_in_ns, dt_frame_in_ns and dt as they were; once None has been
\* returned the state is Render, and a later call evaluates Render again,
\* starting with should_close.
C15_EndLeavesState ==
    [][ /\ Returns("end")
            => /\ state = State_Render
               /\ state' = State_Render
               /\ UNCHANGED <<last_update, last_frame, dt_update_in_ns,
                              dt_frame_in_ns, dt>>
        /\ hist'.ends >= 1 => state' = State_Render
        /\ (hist.ends >= 1 /\ inCall /\ <<callLog, inCall>>' # <<callLog, inCall>>)
            => /\ PassIn(State_Render)
               /\ Added[1].op = "should_close"
      ]_vars

\* after two updates next() returned None, was called again and returned
\* None again from the same state
C15_Witness ==
    /\ ~inCall
    /\ hist.ends = 2
    /\ state = State_Render
    /\ hist.updates = 2
    /\ last_update = hist.start + 2 * dt_update_in_ns

\* ------------------------------------------------------------ C16
\* C16: idle slack is positive.  An idle event carries
\* min(last_frame + dt_frame_in_ns, last_update + dt_update_in_ns) - now
\* nanoseconds, now being the sample of its pass, and that is > 0; a sleep is
\* asked for the same difference taken from the sample of its own pass, also
\* > 0; a pass whose sample has reached the deadline computes neither.
C16_IdleSlackPositive ==
    [][ /\ Returns("idle")
            => /\ ret'.args[1] = Min(FrameDeadline, UpdateDeadline) - clock'
               /\ ret'.args[1] > 0
        /\ Slept
            => /\ SleptFor > 0
               /\ SleptFor <= Min(FrameDeadline, UpdateDeadline) - clock
               /\ SleptFor >= Min(FrameDeadline, UpdateDeadline) - clock - MaxTick
        /\ (UpdateLoopPass /\ ~Slept /\ Min(FrameDeadline, UpdateDeadline) <= clock')
            => ~Returns("idle") /\ callLog' = callLog
      ]_vars

\* the thread has slept for less than the idle event before it announced,
\* the clock having moved between the two calls
C16_Witness ==
    /\ inCall
    /\ ret.kind = "idle"
    /\ Len(callLog) = 2
    /\ callLog[2].op = "sleep"
    /\ callLog[2].res[1] >= 1
    /\ ret.args[1] > callLog[2].res[1]

\* ------------------------------------------------------------ C17
\* C17: idle flag meaning.  Between calls of next() the state is
\* UpdateLoop(Idle::Yes) exactly when the last call returned an idle event;
\* before the first call it is not UpdateLoop(Idle::Yes).
C17_IdleFlagMeaning ==
    /\ ~inCall => (state = State_UpdateLoop(Idle_Yes) <=> ret.kind = "idle")
    /\ ~hist.started => state # State_UpdateLoop(Idle_Yes)

\* an input event polled in UpdateLoop after an idle event cleared the flag
C17_Witness ==
    /\ ~inCall
    /\ ret.kind = "input"
    /\ state = State_UpdateLoop(Idle_No)
    /\ hist.idleInSlack >= 1

\* ------------------------------------------------------------ C18
\* C18: one sleep per call.  The thread sleeps only in the first pass of a
\* call that started in UpdateLoop(Idle::Yes), the previous call having
\* returned an idle event, after a poll that found nothing; the sleep
\* returns no event, leaves UpdateLoop(Idle::No) and the call goes on; no
\* call sleeps twice.
C18_OneSleepPerCall ==
    [][ /\ Slept
            => /\ callLog = <<>>
               /\ ret.kind = "idle"
               /\ state = State_UpdateLoop(Idle_Yes)
               /\ Added = << Called("poll_event", "UpdateLoop", None),
                             Called("sleep", "UpdateLoop", <<SleptFor>>) >>
               /\ state' = State_UpdateLoop(Idle_No)
               /\ inCall'
               /\ ret' = ret
               /\ hist'.emitted = hist.emitted
        /\ \A i \in 1 .. Len(callLog') : callLog'[i].op = "sleep" => i = 2
      ]_vars

\* the sleep of this call overshot the deadline it was waiting for
C18_Witness ==
    /\ inCall
    /\ state = State_UpdateLoop(Idle_No)
    /\ Len(callLog) = 2
    /\ callLog[2].op = "sleep"
    /\ clock > Min(FrameDeadline, UpdateDeadline)


\* ------------------------------------------------------------ C19
\* the model follows a run up to its last update and no further
Horizon == state = State_Update /\ hist.updates >= MaxUpdates

\* C19: Render is never starved by update lag.  With dt_update_in_ns > 0,
\* under a caller that keeps calling and sleeps that return, the machine is
\* in Render again and again, and once close-intent is raised it is there
\* with None returned; updates are chosen only while the update deadline is
\* strictly before the frame deadline, and each one moves the update
\* deadline forward and leaves the frame deadline where it was.
C19_RenderNotStarved ==
    /\ []<>(Horizon \/ (state = State_Render /\ (closing => ret = EndOfSequence)))
    /\ [][ /\ (Returns("update") /\ dt_update_in_ns > 0)
               => /\ UpdateDeadline' > UpdateDeadline
                  /\ FrameDeadline' = FrameDeadline
           /\ (inCall /\ state[1] = "UpdateLoop" /\ state' = State_HandleEvents)
               => UpdateDeadline < FrameDeadline
         ]_vars

\* the machine is back in Render after two updates, with the update
\* deadline still behind the clock
C19_Witness ==
    /\ inCall
    /\ state = State_Render
    /\ hist.frames >= 1
    /\ hist.updates >= 2
    /\ dt_update_in_ns > 0
    /\ ret.kind = "update"
    /\ UpdateDeadline <= clock

====
